---- MODULE Spec2Model ----
(***************************************************************************)
(* State-machine model of the portfolio site: the contact form's simulated *)
(* submit (handleSubmit and its two nested setTimeout callbacks), the      *)
(* navbar's scroll listener, the section components' useInView visibility  *)
(* flag, the root layout's render tree and the route table.                *)
(***************************************************************************)
EXTENDS Integers, Sequences, FiniteSets, TLC

VARIABLES
    formMounted,   \* the Contact component is mounted
    isLoading,     \* Contact: useState(false), "submitting" flag
    isSubmitted,   \* Contact: useState(false), "submitted" flag
    timers,        \* the window's pending setTimeout callbacks, in scheduling order
    submitCount,   \* number of handleSubmit calls so far
    navMounted,          \* the Navbar component is mounted
    isScrolled,          \* Navbar: useState(false)
    scrollY,             \* window.scrollY
    scrollEventPending,  \* a scroll event is queued for dispatch
    scrollListeners,     \* the window's "scroll" listeners, in registration order
    scrollHandled,       \* history: handleScroll has run since the Navbar mounted
    secMounted,    \* per section: the component is mounted
    isInView,      \* per section: the boolean useInView returns
    intersecting,  \* per section: its element intersects the (shrunk) viewport
    observed,      \* per section: the IntersectionObserver still observes it
    entries,       \* per section: queued IntersectionObserver entries
    animRuns,      \* per section: fade-up animations started since mount
    layout,        \* which RootLayout module the build uses
    path,          \* the requested path
    page,          \* the page element rendered for it
    wrappers       \* the elements RootLayout puts around {children}, outermost first

formVars == <<formMounted, isLoading, isSubmitted, timers, submitCount>>
navVars == <<navMounted, isScrolled, scrollY, scrollEventPending, scrollListeners,
             scrollHandled>>
secVars == <<secMounted, isInView, intersecting, observed, entries, animRuns>>
routeVars == <<layout, path, page, wrappers>>

vars == <<formVars, navVars, secVars, routeVars>>

\* ---------------------------------------------------------------- bounds
MaxSubmits == 3      \* handleSubmit calls explored
MaxLateSteps == 1    \* how many clock steps a due timer callback may be delayed
SiteSubmits == 1     \* handleSubmit calls explored when the whole page runs

\* ------------------------------------------------------- program constants
SubmitDelay == 1500  \* setTimeout(..., 1500)
ResetDelay == 3000   \* setTimeout(..., 3000)

\* The clock advances in steps of a third of the submit delay (500 ms).
Step == SubmitDelay \div 3

\* ------------------------------------------------------------ contact form
\* A pending timer: the callback it runs (kind), the time left until it is
\* due (rem, in ms; negative when overdue), the submit it stems from (id) and
\* whether the component instance whose setters it closes over is still
\* mounted (live): React drops a state update of an unmounted component.
Timer(k, r, i, l) == [kind |-> k, rem |-> r, id |-> i, live |-> l]

RemoveAt(s, i) == [j \in 1..(Len(s) - 1) |-> IF j < i THEN s[j] ELSE s[j + 1]]

\* The event loop runs the due timer with the earliest due time, and among
\* equal due times the one scheduled first.
IsNextDue(i) ==
    /\ timers[i].rem <= 0
    /\ \A j \in 1..Len(timers) :
          j # i => \/ timers[j].rem > timers[i].rem
                   \/ (timers[j].rem = timers[i].rem /\ j > i)

\* Contact mounts: both useState(false) initialisers run.
FormMount ==
    /\ ~formMounted
    /\ formMounted' = TRUE
    /\ isLoading' = FALSE
    /\ isSubmitted' = FALSE
    /\ UNCHANGED <<timers, submitCount>>
    /\ UNCHANGED <<navVars, secVars, routeVars>>

\* Variant: the unmount clears every pending timer (a clearTimeout cleanup).
TimersClearedOnUnmount(ts) == <<>>

\* The timers a component's unmount leaves behind: handleSubmit registers no
\* cleanup, so no clearTimeout runs; the callbacks now close over a dead
\* instance.
TimersAfterUnmount(ts) == [j \in 1..Len(ts) |-> [ts[j] EXCEPT !.live = FALSE]]

\* Contact unmounts: its state is discarded.
FormUnmount ==
    /\ formMounted
    /\ formMounted' = FALSE
    /\ isLoading' = FALSE
    /\ isSubmitted' = FALSE
    /\ timers' = TimersAfterUnmount(timers)
    /\ UNCHANGED submitCount
    /\ UNCHANGED <<navVars, secVars, routeVars>>

\* handleSubmit: setIsLoading(true); setTimeout(<completion>, 1500).
handleSubmit ==
    /\ formMounted
    /\ submitCount < MaxSubmits
    /\ submitCount' = submitCount + 1
    /\ isLoading' = TRUE
    /\ timers' = Append(timers, Timer("complete", SubmitDelay, submitCount + 1, TRUE))
    /\ UNCHANGED <<formMounted, isSubmitted>>
    /\ UNCHANGED <<navVars, secVars, routeVars>>

\* Variant: the completion callback forgets the nested setTimeout, so no
\* reset timer is scheduled.
CompleteWithoutReset(i) ==
    /\ timers[i].kind = "complete"
    /\ IF timers[i].live
          THEN isLoading' = FALSE /\ isSubmitted' = TRUE
          ELSE UNCHANGED <<isLoading, isSubmitted>>
    /\ timers' = RemoveAt(timers, i)

\* The 1500 ms callback: setIsLoading(false); setIsSubmitted(true);
\* setTimeout(<reset>, 3000).
CompleteCallback(i) ==
    /\ timers[i].kind = "complete"
    /\ IF timers[i].live
          THEN isLoading' = FALSE /\ isSubmitted' = TRUE
          ELSE UNCHANGED <<isLoading, isSubmitted>>
    /\ timers' = Append(RemoveAt(timers, i),
                        Timer("reset", ResetDelay, timers[i].id, timers[i].live))

\* The 3000 ms callback: setIsSubmitted(false).
ResetCallback(i) ==
    /\ timers[i].kind = "reset"
    /\ IF timers[i].live
          THEN isSubmitted' = FALSE
          ELSE UNCHANGED isSubmitted
    /\ timers' = RemoveAt(timers, i)
    /\ UNCHANGED isLoading

FireTimer ==
    \E i \in 1..Len(timers) :
        /\ IsNextDue(i)
        /\ (CompleteCallback(i) \/ ResetCallback(i))
        /\ UNCHANGED <<formMounted, submitCount>>
        /\ UNCHANGED <<navVars, secVars, routeVars>>

\* Time passes by one step; a due callback is delayed by at most MaxLateSteps.
Tick ==
    /\ timers # <<>>
    /\ \A j \in 1..Len(timers) : timers[j].rem > -(MaxLateSteps * Step)
    /\ timers' = [j \in 1..Len(timers) |-> [timers[j] EXCEPT !.rem = @ - Step]]
    /\ UNCHANGED <<formMounted, isLoading, isSubmitted, submitCount>>
    /\ UNCHANGED <<navVars, secVars, routeVars>>

FormInit ==
    /\ formMounted = TRUE
    /\ isLoading = FALSE
    /\ isSubmitted = FALSE
    /\ timers = <<>>
    /\ submitCount = 0

FormNext == handleSubmit \/ FireTimer \/ Tick \/ FormMount \/ FormUnmount

\* ------------------------------------------------------------------ navbar
ScrollThreshold == 50   \* window.scrollY > 50

\* The scroll positions explored: the top, and the threshold's neighbourhood.
ScrollYs == {0, ScrollThreshold - 1, ScrollThreshold, ScrollThreshold + 1}

\* Variant: the threshold itself already counts as scrolled.
ScrolledFrom(y) == y >= ScrollThreshold

\* handleScroll's argument to setIsScrolled.
ScrolledAt(y) == y > ScrollThreshold

\* Variant: the effect returns no cleanup, the listener outlives its Navbar.
ListenersLeaked(ls) == [i \in 1..Len(ls) |-> FALSE]

\* A registered listener is the handleScroll closure of one Navbar instance;
\* it is recorded by whether that instance is still mounted.
\* The effect's cleanup: removeEventListener("scroll", handleScroll) removes
\* the unmounting instance's own listener.
ListenersAfterCleanup(ls) == SelectSeq(ls, LAMBDA l : ~l)

\* Navbar mounts: useState(false), then the effect (deps []) registers
\* handleScroll once.
NavMount ==
    /\ ~navMounted
    /\ navMounted' = TRUE
    /\ isScrolled' = FALSE
    /\ scrollHandled' = FALSE
    /\ scrollListeners' = Append(scrollListeners, TRUE)
    /\ UNCHANGED <<scrollY, scrollEventPending>>
    /\ UNCHANGED <<formVars, secVars, routeVars>>

\* Navbar unmounts: the effect's cleanup runs and the state is discarded.
NavUnmount ==
    /\ navMounted
    /\ navMounted' = FALSE
    /\ isScrolled' = FALSE
    /\ scrollHandled' = FALSE
    /\ scrollListeners' = ListenersAfterCleanup(scrollListeners)
    /\ UNCHANGED <<scrollY, scrollEventPending>>
    /\ UNCHANGED <<formVars, secVars, routeVars>>

\* The user (or an anchor link) scrolls the window; the browser queues a
\* scroll event.
ScrollTo(y) ==
    /\ y # scrollY
    /\ scrollY' = y
    /\ scrollEventPending' = TRUE
    /\ UNCHANGED <<navMounted, isScrolled, scrollListeners, scrollHandled>>
    /\ UNCHANGED <<formVars, secVars, routeVars>>

\* The queued scroll event is dispatched to every registered listener; a
\* listener of a mounted Navbar runs setIsScrolled(window.scrollY > 50).
DispatchScroll ==
    /\ scrollEventPending
    /\ scrollEventPending' = FALSE
    /\ IF \E i \in 1..Len(scrollListeners) : scrollListeners[i]
          THEN isScrolled' = ScrolledAt(scrollY) /\ scrollHandled' = TRUE
          ELSE UNCHANGED <<isScrolled, scrollHandled>>
    /\ UNCHANGED <<navMounted, scrollY, scrollListeners>>
    /\ UNCHANGED <<formVars, secVars, routeVars>>

NavInit ==
    /\ navMounted = TRUE
    /\ isScrolled = FALSE
    /\ scrollY = 0
    /\ scrollEventPending = FALSE
    /\ scrollListeners = <<TRUE>>
    /\ scrollHandled = FALSE

NavNext ==
    \/ NavMount
    \/ NavUnmount
    \/ \E y \in ScrollYs : ScrollTo(y)
    \/ DispatchScroll

\* ---------------------------------------------------------------- sections
MaxEntries == 2   \* IntersectionObserver entries queued per section

\* The sections explored (ids named in the documentation).
Sections == {"about", "skills"}

\* Variant: useInView without once.
UseInViewRepeat == FALSE

\* useInView(ref, { once: true, margin: "-100px" }): the once option.
UseInViewOnce == TRUE

\* The value of isInView after one entry is handled: an entering entry sets
\* it; a leaving entry clears it only when once is off (with once the
\* observer has unobserved the element and no leave handler is kept).
AfterEntry(v, e) == IF e THEN TRUE ELSE IF UseInViewOnce THEN v ELSE FALSE

RECURSIVE AfterEntries(_, _)
AfterEntries(v, es) ==
    IF es = <<>> THEN v ELSE AfterEntries(AfterEntry(v, Head(es)), Tail(es))

HasEntering(es) == \E i \in 1..Len(es) : es[i]

\* A section mounts: isInView starts false, the observer starts observing
\* the element and queues an initial entry with its current intersection.
SectionMount(s) ==
    /\ ~secMounted[s]
    /\ secMounted' = [secMounted EXCEPT ![s] = TRUE]
    /\ isInView' = [isInView EXCEPT ![s] = FALSE]
    /\ observed' = [observed EXCEPT ![s] = TRUE]
    /\ entries' = [entries EXCEPT ![s] = <<intersecting[s]>>]
    /\ animRuns' = [animRuns EXCEPT ![s] = 0]
    /\ UNCHANGED intersecting
    /\ UNCHANGED <<formVars, navVars, routeVars>>

\* A section unmounts: the observer is disconnected, the state discarded.
SectionUnmount(s) ==
    /\ secMounted[s]
    /\ secMounted' = [secMounted EXCEPT ![s] = FALSE]
    /\ isInView' = [isInView EXCEPT ![s] = FALSE]
    /\ observed' = [observed EXCEPT ![s] = FALSE]
    /\ entries' = [entries EXCEPT ![s] = <<>>]
    /\ animRuns' = [animRuns EXCEPT ![s] = 0]
    /\ UNCHANGED intersecting
    /\ UNCHANGED <<formVars, navVars, routeVars>>

\* Scrolling moves the section's element into or out of the viewport; an
\* observing IntersectionObserver queues an entry.
ViewportChange(s) ==
    /\ observed[s] => Len(entries[s]) < MaxEntries
    /\ intersecting' = [intersecting EXCEPT ![s] = ~intersecting[s]]
    /\ entries' = [entries EXCEPT ![s] =
                      IF observed[s] THEN Append(@, ~intersecting[s]) ELSE @]
    /\ UNCHANGED <<secMounted, isInView, observed, animRuns>>
    /\ UNCHANGED <<formVars, navVars, routeVars>>

\* Variant: one visibility boolean shared by all sections.
InViewShared(s) == [t \in Sections |-> AfterEntries(isInView[s], entries[s])]

\* The visibility booleans after section s's callback: only s's own changes.
InViewAfterCallback(s) == [isInView EXCEPT ![s] = AfterEntries(@, entries[s])]

\* The observer's callback handles the queued entries of section s in order;
\* the component re-renders with the resulting isInView, and the motion.div
\* starts its animation when animate changes from {} to the target.
ObserverCallback(s) ==
    /\ entries[s] # <<>>
    /\ isInView' = InViewAfterCallback(s)
    /\ observed' = [observed EXCEPT ![s] =
                      @ /\ ~(UseInViewOnce /\ HasEntering(entries[s]))]
    /\ entries' = [entries EXCEPT ![s] = <<>>]
    /\ animRuns' = [animRuns EXCEPT ![s] =
                      IF ~isInView[s] /\ isInView'[s] THEN @ + 1 ELSE @]
    /\ UNCHANGED <<secMounted, intersecting>>
    /\ UNCHANGED <<formVars, navVars, routeVars>>

SecInit ==
    /\ secMounted = [s \in Sections |-> TRUE]
    /\ isInView = [s \in Sections |-> FALSE]
    /\ intersecting \in [Sections -> BOOLEAN]
    /\ observed = [s \in Sections |-> TRUE]
    /\ entries = [s \in Sections |-> <<intersecting[s]>>]
    /\ animRuns = [s \in Sections |-> 0]

SecNext ==
    \E s \in Sections :
        \/ SectionMount(s)
        \/ SectionUnmount(s)
        \/ ViewportChange(s)
        \/ ObserverCallback(s)

\* ------------------------------------------------------ layout and routing
\* What src/app/layout.tsx puts around {children}: <html><body>.
RootLayoutApp == <<"html", "body">>

\* What the second RootLayout module puts around {children}:
\* <html><body><Providers>.
RootLayoutProviders == <<"html", "body", "Providers">>

Layouts == {"src/app/layout.tsx", "layout-with-providers"}

RootLayout(l) ==
    IF l = "src/app/layout.tsx" THEN RootLayoutApp ELSE RootLayoutProviders

\* The paths requested: the index route and two others.
Paths == {"/", "/projects", "/missing"}

\* The route table: the main page at "/", nothing else.
ConfiguredRoutes == {"/"}

\* Variant: a router without a catch-all route.
RouteElementNoFallback(p) == "Page"

\* The router's choice of element: the matching route's page, else the 404 page.
RouteElement(p) == IF p \in ConfiguredRoutes THEN "Page" ELSE "NotFound"

\* The ids of the elements Page renders: a div holding BackgroundRippleEffect
\* and an h1, none of which carries an id.
PageSectionIds == {}

\* navItems' hrefs, each as <<"#", fragment>>.
NavItemHrefs == {<<"#", "unique-id">>}

\* The id an anchor href points at: the text after the leading "#".
AnchorId(h) == IF Len(h) = 2 /\ h[1] = "#" THEN h[2] ELSE "(none)"

\* A path is requested: the router picks the page and RootLayout renders it
\* as its children.
Request(p) ==
    /\ p # path
    /\ path' = p
    /\ page' = RouteElement(p)
    /\ wrappers' = RootLayout(layout)
    /\ UNCHANGED layout
    /\ UNCHANGED <<formVars, navVars, secVars>>

RouteInit ==
    /\ layout \in Layouts
    /\ path = "/"
    /\ page = RouteElement("/")
    /\ wrappers = RootLayout(layout)

RouteNext == \E p \in Paths : Request(p)

\* ---------------------------------------------------------- specifications
Init == FormInit /\ NavInit /\ SecInit /\ RouteInit

PageNext == NavNext \/ SecNext \/ RouteNext

Next == FormNext \/ PageNext

\* The whole site.
Spec == Init /\ [][Next]_vars

\* The initial state with one layout and an empty first viewport, for the
\* specifications in which the layout and the first viewport play no part.
RestInit ==
    /\ Init
    /\ layout = "layout-with-providers"
    /\ intersecting = [s \in Sections |-> FALSE]

\* The contact form and the timer queue alone.
SpecForm == RestInit /\ [][FormNext]_vars

\* The scroll-driven components, the layout and the router alone.
SpecPage == Init /\ [][PageNext]_vars

\* The page's components side by side: the navbar, the sections and the
\* contact form (with SiteSubmits submits), behind one rendered route.
SpecSite ==
    RestInit /\ [][NavNext \/ SecNext \/ (FormNext /\ submitCount' <= SiteSubmits)]_vars

\* The contact form under the event loop's scheduling: a due timer callback
\* is eventually run, and time does not stop while a timer is pending.
FairSpecForm == SpecForm /\ WF_vars(FireTimer) /\ WF_vars(Tick)

\* ------------------------------------------------------------------ claims
\* The button state the form's two flags select.
FormPhase(l, s) ==
    IF l /\ s THEN "loading+submitted"
    ELSE IF l THEN "loading"
    ELSE IF s THEN "submitted"
    ELSE "idle"

\* C1: the submitting flag (isLoading) and the submitted flag (isSubmitted)
\* are never both true, whatever submits and timer firings have happened.
C1_NeverLoadingAndSubmitted == ~(isLoading /\ isSubmitted)

\* C2: while the form stays mounted it never goes from loading straight to
\* idle nor from idle straight to submitted: the phases follow
\* idle -> loading -> submitted -> idle.
C2_PhaseOrder ==
    [][(formMounted /\ formMounted') =>
          /\ ~(/\ FormPhase(isLoading, isSubmitted) = "loading"
               /\ FormPhase(isLoading', isSubmitted') = "idle")
          /\ ~(/\ FormPhase(isLoading, isSubmitted) = "idle"
               /\ FormPhase(isLoading', isSubmitted') = "submitted")]_vars

\* C3: exactly one handleScroll listener is registered while the Navbar is
\* mounted and none while it is unmounted, every registered listener belongs
\* to the mounted Navbar, and no step taken while the Navbar is unmounted
\* (a dispatched scroll event included) changes isScrolled.
C3_ListenerLifecycle ==
    /\ [](/\ Len(scrollListeners) = (IF navMounted THEN 1 ELSE 0)
          /\ \A i \in 1..Len(scrollListeners) : scrollListeners[i])
    /\ [][(~navMounted /\ ~navMounted') => isScrolled' = isScrolled]_vars

\* C3 witness: the Navbar is unmounted, no listener is left, and a scroll
\* past the threshold has been dispatched without touching isScrolled.
C3_Witness ==
    /\ ~navMounted
    /\ scrollListeners = <<>>
    /\ scrollY > ScrollThreshold
    /\ ~scrollEventPending
    /\ ~isScrolled

\* C4: when a section's isInView turns true (the section entered the
\* viewport), the isInView of every other section, the navbar's isScrolled
\* and the contact form's isLoading and isSubmitted are left as they were.
C4_SectionOwnsItsFlag ==
    [][\A s \in Sections :
          (~isInView[s] /\ isInView'[s]) =>
              /\ \A t \in Sections \ {s} : isInView'[t] = isInView[t]
              /\ isScrolled' = isScrolled
              /\ isLoading' = isLoading
              /\ isSubmitted' = isSubmitted]_vars

\* C4 witness: one section has entered the viewport and shows, another one
\* is mounted and still hidden, while the navbar is scrolled and the form is
\* submitting.
C4_Witness ==
    /\ secMounted["about"] /\ isInView["about"]
    /\ secMounted["skills"] /\ ~isInView["skills"]
    /\ isScrolled
    /\ isLoading

\* The callback of section s runs in this step with an entering entry queued.
EnteringHandled(s) ==
    /\ secMounted[s] /\ secMounted'[s]
    /\ HasEntering(entries[s])
    /\ entries'[s] = <<>>

\* C5: a section's isInView is false when it mounts, is true once the
\* callback has handled an entry that entered the viewport, never returns to
\* false while the section stays mounted, and the fade-up animation starts at
\* most once per mount.
C5_InViewOnce ==
    /\ [][\A s \in Sections :
             /\ (~secMounted[s] /\ secMounted'[s]) => ~isInView'[s]
             /\ EnteringHandled(s) => isInView'[s]
             /\ (secMounted[s] /\ secMounted'[s] /\ isInView[s]) => isInView'[s]]_vars
    /\ [](\A s \in Sections : animRuns[s] <= 1)

\* C5 witness: a mounted section that entered the viewport, animated once,
\* and has left the viewport again is still in view for its component.
C5_Witness ==
    \E s \in Sections :
        /\ secMounted[s]
        /\ isInView[s]
        /\ ~intersecting[s]
        /\ animRuns[s] = 1
        /\ entries[s] = <<>>

\* C6: whatever page is rendered, RootLayout renders it inside Providers.
C6_ChildrenInsideProviders ==
    \E i \in 1..Len(wrappers) : wrappers[i] = "Providers"

\* C7: while the main page is shown, every navItems href is "#" followed by
\* the id of a section the page renders.
C7_AnchorsResolve ==
    page = "Page" => \A h \in NavItemHrefs : AnchorId(h) \in PageSectionIds

\* C8: a path that matches no configured route shows the 404 page, and a
\* path of a configured route never shows it.
C8_NotFoundIffUnmatched ==
    (page = "NotFound") <=> (path \notin ConfiguredRoutes)

\* C8 witness: an unmatched path was requested and the 404 page is shown.
C8_Witness == path = "/missing" /\ page = "NotFound"

\* Timer (k, i): the callback of kind k stemming from submit i.
Pending(k, i) ==
    \E j \in 1..Len(timers) : timers[j].kind = k /\ timers[j].id = i

TimersOf(k, i) ==
    {j \in 1..Len(timers) : timers[j].kind = k /\ timers[j].id = i}

\* Timer (k, i) is pending before this step and gone after it: it fired.
Fired(k, i) == Pending(k, i) /\ ~Pending(k, i)'

\* What every step does to the timer queue: handleSubmit adds exactly one
\* completion timer of 1500 ms for the new submit; a pending timer leaves
\* the queue only by firing when due; a fired completion timer leaves
\* exactly one reset timer of 3000 ms for the same submit, and no reset timer
\* appears otherwise.
TimerQueueStep ==
    /\ (submitCount' # submitCount) =>
          /\ Len(timers') = Len(timers) + 1
          /\ \A j \in 1..Len(timers) :
                [timers'[j] EXCEPT !.live = TRUE] = [timers[j] EXCEPT !.live = TRUE]
          /\ timers'[Len(timers')].kind = "complete"
          /\ timers'[Len(timers')].rem = 1500
          /\ timers'[Len(timers')].id = submitCount'
    /\ \A i \in 1..MaxSubmits :
          /\ \A k \in {"complete", "reset"} :
                Fired(k, i) =>
                    \E j \in TimersOf(k, i) : timers[j].rem <= 0
          /\ Fired("complete", i) =>
                \E j \in 1..Len(timers') :
                    /\ timers'[j].kind = "reset" /\ timers'[j].id = i
                    /\ timers'[j].rem = 3000
          /\ (~Pending("reset", i) /\ Pending("reset", i)') => Fired("complete", i)
          /\ Cardinality(TimersOf("complete", i)') <= 1
          /\ Cardinality(TimersOf("reset", i)') <= 1

\* The fired timer's callback closes over a form instance that is still mounted.
FiredLive(k, i) ==
    Fired(k, i) /\ \E j \in TimersOf(k, i) : timers[j].live

\* C9 as stated: no pending timer is ever cancelled, and every timer that
\* fires applies its state update: the completion timer leaves isLoading
\* false and isSubmitted true, the reset timer leaves isSubmitted false.
C9_EveryFiringUpdatesState ==
    [][/\ TimerQueueStep
       /\ \A i \in 1..MaxSubmits :
             /\ Fired("complete", i) => (~isLoading' /\ isSubmitted')
             /\ Fired("reset", i) => ~isSubmitted']_vars

\* C9, amended: no pending timer is ever cancelled, by a later submit or by
\* an unmount; every scheduled timer eventually fires; a firing timer
\* applies its state update when the form instance that scheduled it is
\* still mounted, and changes neither flag when that instance was unmounted.
C9_TimersNeverCancelled ==
    /\ [][/\ TimerQueueStep
          /\ \A i \in 1..MaxSubmits :
                /\ FiredLive("complete", i) => (~isLoading' /\ isSubmitted')
                /\ FiredLive("reset", i) => ~isSubmitted'
                /\ \A k \in {"complete", "reset"} :
                      (Fired(k, i) /\ ~FiredLive(k, i)) =>
                          UNCHANGED <<isLoading, isSubmitted>>]_vars
    /\ \A i \in 1..MaxSubmits :
          /\ Pending("complete", i) ~> Pending("reset", i)
          /\ Pending("reset", i) ~> ~Pending("reset", i)

\* C9 witness: the form was unmounted and mounted again; the reset timer of
\* a submit made before the unmount is still pending next to the completion
\* timer of a submit made after it.
C9_Witness ==
    /\ formMounted
    /\ \E j, k \in 1..Len(timers) :
          /\ timers[j].kind = "reset" /\ ~timers[j].live
          /\ timers[k].kind = "complete" /\ timers[k].live
          /\ timers[k].id > timers[j].id

\* C10: a mounted Navbar's isScrolled is false until handleScroll has run,
\* whatever the scroll position; once the last scroll event has been handled
\* it is true exactly when window.scrollY is above 50.
C10_ScrolledIffPastThreshold ==
    navMounted =>
        /\ ~scrollHandled => ~isScrolled
        /\ (scrollHandled /\ ~scrollEventPending) => (isScrolled <=> scrollY > 50)

\* C10 witness: the Navbar has handled a scroll to exactly 50 and is not
\* scrolled.
C10_Witness ==
    /\ navMounted
    /\ scrollHandled
    /\ ~scrollEventPending
    /\ scrollY = 50
    /\ ~isScrolled

\* The reset timer of submit i is pending for the mounted form and not yet
\* due: the completion timer of submit i has set isSubmitted and its own
\* 3000 ms have not passed.
OwnResetPending(i) ==
    \E j \in TimersOf("reset", i) : timers[j].live /\ timers[j].rem > 0

\* C11: while the form stays mounted, the success state a submit's
\* completion timer has set stays true until that same submit's reset timer
\* fires: as long as the reset timer of submit i is pending and not yet due,
\* isSubmitted is true, so no earlier submit's reset timer clears it.
C11_SuccessLastsUntilOwnReset ==
    [][\A i \in 1..MaxSubmits :
          (formMounted /\ formMounted' /\ OwnResetPending(i) /\ OwnResetPending(i)')
              => isSubmitted']_vars

\* The form is idle and the timer queue is empty.
Quiescent == timers = <<>> /\ ~isLoading /\ ~isSubmitted

\* C12: whenever every pending timer has fired the form is idle; it then
\* stays idle with no timer pending until the next submit; and since the
\* submits are finitely many, the form ends up idle with no timer pending
\* for good.
C12_Quiescence ==
    /\ [](timers = <<>> => (~isLoading /\ ~isSubmitted))
    /\ [][(Quiescent /\ submitCount' = submitCount) => Quiescent']_vars
    /\ <>[]Quiescent

\* C12 witness: the mounted form after two or more submits whose timers have
\* all fired.
C12_Witness ==
    /\ formMounted
    /\ submitCount >= 2
    /\ timers = <<>>
    /\ ~isLoading
    /\ ~isSubmitted

====
